---- MODULE Spec2Model ----
(***************************************************************************)
(* Model of the QuickView desktop shell, src-tauri/src/main.rs.            *)
(*                                                                         *)
(* The setup closure looks up the two windows, spawns the "trame" sidecar  *)
(* and starts one asynchronous consumer task.  The task drains the child's *)
(* event channel and reacts to two sentinel substrings found in the        *)
(* child's standard output:                                                *)
(*    tauri-server-port=<N>   main_window.eval(<navigation script>)        *)
(*    tauri-client-ready      sleep 2 s, splashscreen.close(), main.show() *)
(*                                                                         *)
(* Lines are TLA+ strings; contains, split, trim and format! are computed  *)
(* character by character as the Rust standard library computes them.      *)
(* Every println! of the program writes to the process's own standard      *)
(* output and touches none of the variables below, so it is not recorded.  *)
(***************************************************************************)
EXTENDS Integers, Sequences, FiniteSets, TLC

VARIABLES
    setup,          \* position of the setup closure (main.rs 14-60)
    task,           \* position of the consumer task (main.rs 28-59)
    rx,             \* events sent by the child and not yet received
    child,          \* the sidecar: "none", "failed", "running" or "exited"
    read,           \* events the consumer task has received, in order
    splash,         \* splash window: "open" or "closed"
    mainVisible,    \* the main window is shown
    mainLocation,   \* last script the main window evaluated, "" if none
    timer,          \* seconds of the grace delay still to sleep
    log             \* every window operation the program has issued, in order

vars == <<setup, task, rx, child, read, splash, mainVisible, mainLocation, timer, log>>

(***************************************************************************)
(* Bounds of the model.                                                    *)
(***************************************************************************)
\* number of events the child sends in one execution
MaxEvents == 3

(***************************************************************************)
(* Program constants.                                                      *)
(***************************************************************************)
\* a plausible slip: the sentinel is not the text the child prints
MisspeltPortMarker == "tauri-server-port:"

\* a plausible slip: the sentinel is looked for without its delimiter
MarkerWithoutDelimiter == "tauri-server-port"

PortMarker == "tauri-server-port="
ReadyMarker == "tauri-client-ready"
Delimiter == "="
ScriptHead == "window.location.replace(window.location.href + '?sessionURL=ws://localhost:"
ScriptTail == "/ws')"
\* seconds slept before the splash window is closed
GraceDelay == 2

(***************************************************************************)
(* str::contains, str::split, str::trim, format!                           *)
(***************************************************************************)
\* the least i such that pat occurs in s at position i, 0 if there is none
Find(s, pat) ==
    LET hits == { i \in 1..(Len(s) - Len(pat) + 1) : SubSeq(s, i, i + Len(pat) - 1) = pat }
    IN  IF hits = {} THEN 0 ELSE CHOOSE i \in hits : \A j \in hits : i <= j

Contains(s, pat) == Find(s, pat) # 0

RECURSIVE Split(_, _)
Split(s, d) ==
    LET i == Find(s, d)
    IN  IF i = 0 THEN <<s>>
        ELSE <<SubSeq(s, 1, i - 1)>> \o Split(SubSeq(s, i + Len(d), Len(s)), d)

IsWhitespace(c) == c \in {" ", "\t", "\n", "\r"}

RECURSIVE TrimStart(_)
TrimStart(s) ==
    IF Len(s) > 0 /\ IsWhitespace(SubSeq(s, 1, 1))
    THEN TrimStart(SubSeq(s, 2, Len(s))) ELSE s

RECURSIVE TrimEnd(_)
TrimEnd(s) ==
    IF Len(s) > 0 /\ IsWhitespace(SubSeq(s, Len(s), Len(s)))
    THEN TrimEnd(SubSeq(s, 1, Len(s) - 1)) ELSE s

\* a plausible slip: the token is used as it was split off
NoTrim(s) == s

Trim(s) == TrimEnd(TrimStart(s))

\* the script handed to main_window.eval for a port token
EvalScript(port) == ScriptHead \o port \o ScriptTail

(***************************************************************************)
(* The child's events.                                                     *)
(***************************************************************************)
StdoutLines ==
    { "tauri-server-port=4321",
      "tauri-server-port= 4321 ",
      "x=1 tauri-server-port=4321",
      "tauri-server-port 4321",
      "tauri-client-ready",
      "tauri-server-port=80 tauri-client-ready",
      "App running at:" }

StderrLines == { "tauri-client-ready", "tauri-server-port=9" }

Events ==
    [type : {"Stdout"}, line : StdoutLines]
        \cup [type : {"Stderr"}, line : StderrLines]
        \cup [type : {"Error"}, error : {"broken pipe"}]
        \cup [type : {"Terminated"}, code : {0, 1}]

\* a plausible slip: standard error is scanned for the sentinels as well
ArmScanningStderr(e) == IF e.type = "Stderr" THEN "Stdout" ELSE e.type

\* the arm of the match that takes the event
Arm(e) == e.type

\* a plausible slip: the channel is drained from its newest event
NewestEvent(q) == q[Len(q)]

\* rx.recv().await yields the oldest event of the channel
NextEvent(q) == Head(q)

\* a plausible slip: the loop is left once the child has failed or exited
BreakOnExit(arm) == IF arm \in {"Error", "Terminated"} THEN "done" ELSE "recv"

\* where the task goes once an arm has run to its end: back to rx.recv()
AfterArm(arm) == "recv"

\* a plausible slip: the windows are revealed after every stdout line
RevealAlways(line) == TRUE

\* a plausible slip: the second test is the else of the first
RevealUnlessPort(line) == Contains(line, ReadyMarker) /\ ~Contains(line, PortMarker)

\* the line asks for the windows to be revealed
NeedsReveal(line) == Contains(line, ReadyMarker)

\* the line announces the server's port
NeedsNavigation(line) == Contains(line, PortMarker)

\* a plausible slip: a failed spawn is not treated as fatal
IgnoreSpawnFailure(ok) == "spawn_task"

\* .expect("Failed to spawn server"): the closure goes on only if the spawn worked
AfterSpawn(ok) == IF ok THEN "spawn_task" ELSE "spawn_failed"

(***************************************************************************)
(* Window operations.  Each returns a Result the caller looks at; whether  *)
(* it succeeds is decided by the windowing framework.  src is the number   *)
(* of the event (in the order received) whose handling issued the          *)
(* operation, 0 for the setup closure.                                     *)
(***************************************************************************)
Op(name, arg, ok, src) == [op |-> name, arg |-> arg, ok |-> ok, src |-> src]

\* a plausible slip: the main window is shown before the splash window is closed
ShowBeforeClose(n, closeOk, showOk) ==
    << Op("show", "main", showOk, n), Op("close", "splashscreen", closeOk, n) >>

\* the calls made once the grace delay is over: show is reached only if close returned Ok
RevealOps(n, closeOk, showOk) ==
    IF closeOk
    THEN << Op("close", "splashscreen", closeOk, n), Op("show", "main", showOk, n) >>
    ELSE << Op("close", "splashscreen", closeOk, n) >>

\* a plausible slip: the Result is dropped, as it is for eval
IgnoreResult(ok, next) == next

\* .unwrap() on the Result of a window call: an Err panics the task
Unwrap(ok, next) == IF ok THEN next ELSE "panicked"

Init ==
    /\ setup = "get_splash"
    /\ task = "unborn"
    /\ rx = <<>>
    /\ child = "none"
    /\ read = <<>>
    /\ splash = "open"
    /\ mainVisible = FALSE
    /\ mainLocation = ""
    /\ timer = 0
    /\ log = <<>>

(***************************************************************************)
(* The setup closure.                                                      *)
(***************************************************************************)
\* app.get_window("splashscreen").unwrap()
GetSplash ==
    /\ setup = "get_splash"
    /\ \E found \in BOOLEAN :
        /\ log' = Append(log, Op("get_window", "splashscreen", found, 0))
        /\ setup' = IF found THEN "get_main" ELSE "panicked"
    /\ UNCHANGED <<task, rx, child, read, splash, mainVisible, mainLocation, timer>>

\* app.get_window("main").unwrap()
GetMain ==
    /\ setup = "get_main"
    /\ \E found \in BOOLEAN :
        /\ log' = Append(log, Op("get_window", "main", found, 0))
        /\ setup' = IF found THEN "spawn" ELSE "panicked"
    /\ UNCHANGED <<task, rx, child, read, splash, mainVisible, mainLocation, timer>>

\* Command::new_sidecar("trame").expect(..) ... .spawn().expect(..)
SpawnChild ==
    /\ setup = "spawn"
    /\ \E ok \in BOOLEAN :
        /\ setup' = AfterSpawn(ok)
        /\ child' = IF ok THEN "running" ELSE "failed"
    /\ UNCHANGED <<task, rx, read, splash, mainVisible, mainLocation, timer, log>>

\* tauri::async_runtime::spawn(async move { .. }); Ok(())
SpawnTask ==
    /\ setup = "spawn_task"
    /\ setup' = "done"
    /\ task' = "recv"
    /\ UNCHANGED <<rx, child, read, splash, mainVisible, mainLocation, timer, log>>

(***************************************************************************)
(* The child process, seen through its event channel.                      *)
(***************************************************************************)
\* the child sends one more event
ChildEmit ==
    /\ child = "running"
    /\ Len(read) + Len(rx) < MaxEvents
    /\ \E e \in Events : rx' = Append(rx, e)
    /\ UNCHANGED <<setup, task, child, read, splash, mainVisible, mainLocation, timer, log>>

\* the child is gone and its end of the channel is dropped
ChildClose ==
    /\ child = "running"
    /\ child' = "exited"
    /\ UNCHANGED <<setup, task, rx, read, splash, mainVisible, mainLocation, timer, log>>

(***************************************************************************)
(* The consumer task.                                                      *)
(***************************************************************************)
\* CommandEvent::Stdout(line)
HandleStdout ==
    /\ task = "recv"
    /\ rx # <<>>
    /\ LET e == NextEvent(rx)
           n == Len(read) + 1
           tokens == Split(e.line, Delimiter)
       IN  /\ Arm(e) = "Stdout"
           /\ read' = Append(read, e)
           /\ rx' = Tail(rx)
           /\ IF NeedsNavigation(e.line)
              THEN IF Len(tokens) < 2
                   THEN \* tokens[1] is out of range: the task panics
                        /\ task' = "out_of_range"
                        /\ UNCHANGED <<mainLocation, timer, log>>
                   ELSE \E ok \in BOOLEAN :
                        LET script == EvalScript(Trim(tokens[2]))
                        IN  /\ log' = Append(log, Op("eval", script, ok, n))
                            /\ mainLocation' = IF ok THEN script ELSE mainLocation
                            /\ task' = IF NeedsReveal(e.line) THEN "sleeping" ELSE AfterArm("Stdout")
                            /\ timer' = IF NeedsReveal(e.line) THEN GraceDelay ELSE timer
              ELSE /\ task' = IF NeedsReveal(e.line) THEN "sleeping" ELSE AfterArm("Stdout")
                   /\ timer' = IF NeedsReveal(e.line) THEN GraceDelay ELSE timer
                   /\ UNCHANGED <<mainLocation, log>>
    /\ UNCHANGED <<setup, child, splash, mainVisible>>

\* task::sleep(Duration::from_secs(2)).await, one second passing
Tick ==
    /\ task = "sleeping"
    /\ timer > 0
    /\ timer' = timer - 1
    /\ UNCHANGED <<setup, task, rx, child, read, splash, mainVisible, mainLocation, log>>

\* splashscreen_window.close().unwrap(); main_window.show().unwrap();
Wake ==
    /\ task = "sleeping"
    /\ timer = 0
    /\ \E closeOk \in BOOLEAN, showOk \in BOOLEAN :
        /\ log' = log \o RevealOps(Len(read), closeOk, showOk)
        /\ splash' = IF closeOk THEN "closed" ELSE splash
        /\ mainVisible' = IF closeOk /\ showOk THEN TRUE ELSE mainVisible
        /\ task' = Unwrap(closeOk /\ showOk, AfterArm("Stdout"))
    /\ UNCHANGED <<setup, rx, child, read, mainLocation, timer>>

\* the arms that only print: Stderr, Error, Terminated
HandleOther(arm) ==
    /\ task = "recv"
    /\ rx # <<>>
    /\ Arm(NextEvent(rx)) = arm
    /\ read' = Append(read, NextEvent(rx))
    /\ rx' = Tail(rx)
    /\ task' = AfterArm(arm)
    /\ UNCHANGED <<setup, child, splash, mainVisible, mainLocation, timer, log>>

\* CommandEvent::Stderr(line)
HandleStderr == HandleOther("Stderr")

\* CommandEvent::Error(error)
HandleError == HandleOther("Error")

\* CommandEvent::Terminated(code)
HandleTerminated == HandleOther("Terminated")

\* rx.recv().await yields None: the channel is closed and empty
StreamEnd ==
    /\ task = "recv"
    /\ rx = <<>>
    /\ child = "exited"
    /\ task' = "done"
    /\ UNCHANGED <<setup, rx, child, read, splash, mainVisible, mainLocation, timer, log>>

Next ==
    \/ GetSplash
    \/ GetMain
    \/ SpawnChild
    \/ SpawnTask
    \/ ChildEmit
    \/ ChildClose
    \/ HandleStdout
    \/ Tick
    \/ Wake
    \/ HandleStderr
    \/ HandleError
    \/ HandleTerminated
    \/ StreamEnd

Spec == Init /\ [][Next]_vars

\* the runtime keeps polling the task: the sleep elapses and the calls after it are made
FairSpec == Spec /\ WF_vars(Tick) /\ WF_vars(Wake)

(***************************************************************************)
(* Vocabulary of the properties.  The sentinels are written out here, so   *)
(* that the properties do not read the program's own tests of a line.      *)
(***************************************************************************)
HasPortText(e) == e.type = "Stdout" /\ Contains(e.line, "tauri-server-port=")

HasReadyText(e) == e.type = "Stdout" /\ Contains(e.line, "tauri-client-ready")

\* a stdout line that carries neither sentinel
IsPlainStdout(e) == e.type = "Stdout" /\ ~HasPortText(e) /\ ~HasReadyText(e)

\* positions of the log at which the operation was issued
Issued(name) == { i \in DOMAIN log : log[i].op = name }

\* positions of the log issued while the k-th received event was handled
IssuedFor(k) == { i \in DOMAIN log : log[i].src = k }

WindowOps == {"eval", "close", "show"}

\* the step receives an event: the event it receives is the head of rx
Receives == task = "recv" /\ rx # <<>> /\ read' # read

WindowsUnchanged ==
    /\ log' = log
    /\ splash' = splash
    /\ mainVisible' = mainVisible
    /\ mainLocation' = mainLocation

IsDigit(c) == c \in {"0", "1", "2", "3", "4", "5", "6", "7", "8", "9"}

RECURSIVE Digits(_)
\* the digits of s, in order
Digits(s) ==
    IF Len(s) = 0 THEN ""
    ELSE (IF IsDigit(SubSeq(s, 1, 1)) THEN SubSeq(s, 1, 1) ELSE "") \o Digits(SubSeq(s, 2, Len(s)))

RECURSIVE OnlyPortAndBlanks(_)
\* s is digits and whitespace only
OnlyPortAndBlanks(s) ==
    \/ Len(s) = 0
    \/ /\ IsDigit(SubSeq(s, 1, 1)) \/ IsWhitespace(SubSeq(s, 1, 1))
       /\ OnlyPortAndBlanks(SubSeq(s, 2, Len(s)))

\* what follows the first port sentinel of the line
AfterMarker(line) ==
    SubSeq(line, Find(line, "tauri-server-port=") + Len("tauri-server-port="), Len(line))

\* the line is tauri-server-port=<N>, with nothing but whitespace around N
IsBarePortLine(e) ==
    /\ HasPortText(e)
    /\ Find(e.line, "tauri-server-port=") = 1
    /\ OnlyPortAndBlanks(AfterMarker(e.line))
    /\ Digits(AfterMarker(e.line)) # ""

RECURSIVE FirstToken(_)
\* s up to its first whitespace
FirstToken(s) ==
    IF Len(s) = 0 \/ IsWhitespace(SubSeq(s, 1, 1)) THEN ""
    ELSE SubSeq(s, 1, 1) \o FirstToken(SubSeq(s, 2, Len(s)))

\* the <N> of a line that holds tauri-server-port=<N>
AnnouncedPort(line) == FirstToken(TrimStart(AfterMarker(line)))

(***************************************************************************)
(* C1.  Over any sequence of child events, the splash window is told to    *)
(* close at most once and the main window is told to show at most once.    *)
(* The program issues both once per ready line, so this fails when the     *)
(* ready line recurs.                                                      *)
(***************************************************************************)
C1_RevealAtMostOnce ==
    /\ Cardinality(Issued("close")) <= 1
    /\ Cardinality(Issued("show")) <= 1

(***************************************************************************)
(* C2.  A stdout line that contains neither sentinel issues no window      *)
(* operation: the step that receives it leaves the log and the windows as  *)
(* they were and takes the task straight back to rx.recv(), and no         *)
(* operation of the log was ever issued for such a line.                   *)
(***************************************************************************)
C2_PlainLineNoEffect ==
    /\ [](\A i \in DOMAIN log : log[i].src > 0 => ~IsPlainStdout(read[log[i].src]))
    /\ [][(Receives /\ IsPlainStdout(Head(rx))) => (WindowsUnchanged /\ task' = "recv")]_vars

\* a plain line has been handled after the main window was navigated
C2_Witness ==
    /\ Len(read) >= 2
    /\ IsPlainStdout(read[Len(read)])
    /\ task = "recv"
    /\ Issued("eval") # {}

(***************************************************************************)
(* C3.  When a port line is read and a ready line is read later, the       *)
(* navigation for the port line has been issued before the splash window   *)
(* is closed or the main window shown for the ready line, never after.     *)
(***************************************************************************)
C3_NavigateBeforeReveal ==
    \A j \in Issued("close") \cup Issued("show") :
        \A k \in 1..(log[j].src - 1) :
            HasPortText(read[k]) =>
                /\ \E i \in 1..(j - 1) : log[i].op = "eval" /\ log[i].src = k
                /\ \A i \in IssuedFor(k) : i < j

\* a port line, then a ready line, and the main window has been shown
C3_Witness ==
    \E k \in DOMAIN read, m \in DOMAIN read :
        /\ k < m
        /\ HasPortText(read[k])
        /\ HasReadyText(read[m])
        /\ \E j \in Issued("show") : log[j].src = m

(***************************************************************************)
(* C4.  A stdout line tauri-server-port=<N>, with or without whitespace    *)
(* around N, yields exactly one window operation: a navigation of the main *)
(* window whose script contains ws://localhost:<N>/ws, N without the       *)
(* whitespace.  It yields no close and no show.                            *)
(***************************************************************************)
C4_BarePortLine ==
    \A k \in DOMAIN read :
        IsBarePortLine(read[k]) =>
            /\ Cardinality(IssuedFor(k)) = 1
            /\ \A i \in IssuedFor(k) :
                /\ log[i].op = "eval"
                /\ Contains(log[i].arg,
                            "ws://localhost:" \o Digits(AfterMarker(read[k].line)) \o "/ws")

\* the line with whitespace around the port has been handled
C4_Witness ==
    \E k \in DOMAIN read :
        /\ read[k] = [type |-> "Stdout", line |-> "tauri-server-port= 4321 "]
        /\ \E i \in IssuedFor(k) : log[i].ok /\ mainLocation = log[i].arg

(***************************************************************************)
(* C5.  For every stdout line that holds tauri-server-port=<N> anywhere,   *)
(* the port of the navigation script is exactly N.  The program takes the  *)
(* text between the first and the second "=" of the whole line, so this    *)
(* fails when an "=" comes before the sentinel or text follows N.          *)
(***************************************************************************)
C5_PortIsAnnouncedPort ==
    \A i \in Issued("eval") :
        log[i].arg = EvalScript(AnnouncedPort(read[log[i].src].line))

(***************************************************************************)
(* C6.  An Error or a Terminated event never stops the loop: the step that *)
(* receives it takes the task back to rx.recv() with the rest of the       *)
(* channel untouched, and the task is done only when the channel is empty  *)
(* and closed, so every later event is still received.                     *)
(***************************************************************************)
C6_LoopSurvivesExit ==
    /\ [](task = "done" => (rx = <<>> /\ child = "exited"))
    /\ [][(Receives /\ Head(rx).type \in {"Error", "Terminated"})
            => (task' = "recv" /\ rx' = Tail(rx))]_vars

\* after an Error and a Terminated event, a ready line still revealed the main window
C6_Witness ==
    /\ Len(read) = 3
    /\ read[1].type = "Error"
    /\ read[2].type = "Terminated"
    /\ HasReadyText(read[3])
    /\ mainVisible
    /\ \E j \in Issued("show") : log[j].src = 3

(***************************************************************************)
(* C7.  As claimed: if spawning the child fails, no window operation, the  *)
(* lookup of a window handle included, has been performed and the consumer *)
(* task is never started.  The program looks both windows up before it     *)
(* spawns the child, so this fails.                                        *)
(***************************************************************************)
C7_NothingBeforeSpawn ==
    child = "failed" => (log = <<>> /\ task = "unborn")

(***************************************************************************)
(* C7, amended.  If spawning the child fails, the setup closure stops      *)
(* there: the two window handles have been looked up, and found, and that  *)
(* is all; no navigation, close or show has been issued, the windows are   *)
(* as they were, and the consumer task is never started.                   *)
(***************************************************************************)
C7_SpawnFailureIsFatal ==
    child = "failed" =>
        /\ setup = "spawn_failed"
        /\ task = "unborn"
        /\ log = << Op("get_window", "splashscreen", TRUE, 0), Op("get_window", "main", TRUE, 0) >>
        /\ splash = "open" /\ ~mainVisible /\ mainLocation = ""
        /\ rx = <<>> /\ read = <<>>

\* the spawn has failed
C7_Witness == child = "failed" /\ setup = "spawn_failed"

(***************************************************************************)
(* C8.  Stderr lines, Error events and Terminated events have no effect on *)
(* the windows, whatever their text: the step that receives one leaves the *)
(* log and the windows as they were, and no operation of the log was ever  *)
(* issued for one.                                                         *)
(***************************************************************************)
C8_OnlyStdoutActs ==
    /\ [](\A i \in DOMAIN log : log[i].src > 0 => read[log[i].src].type = "Stdout")
    /\ [][(Receives /\ Head(rx).type \in {"Stderr", "Error", "Terminated"})
            => (WindowsUnchanged /\ task' = "recv")]_vars

\* both sentinels have come on standard error and been handled, with no effect
C8_Witness ==
    /\ Len(read) >= 2
    /\ \E k \in DOMAIN read : read[k] = [type |-> "Stderr", line |-> "tauri-client-ready"]
    /\ \E k \in DOMAIN read : read[k] = [type |-> "Stderr", line |-> "tauri-server-port=9"]
    /\ \A k \in DOMAIN read : read[k].type # "Stdout"
    /\ task = "recv"
    /\ rx = <<>>

(***************************************************************************)
(* C9.  The splash window is closed, or the main window shown, only if a   *)
(* stdout line containing tauri-client-ready has been read before; as long *)
(* as no such line has been read the splash window is open and the main    *)
(* window hidden, however many other events have been handled.             *)
(***************************************************************************)
C9_RevealOnlyWhenReady ==
    (\A k \in DOMAIN read : ~HasReadyText(read[k])) =>
        /\ splash = "open"
        /\ ~mainVisible
        /\ Issued("close") = {}
        /\ Issued("show") = {}
        /\ task # "sleeping"

\* every event of the execution has been handled, a port line among them, none of them a ready line
C9_Witness ==
    /\ Len(read) = MaxEvents
    /\ \A k \in DOMAIN read : ~HasReadyText(read[k])
    /\ \E k \in DOMAIN read : HasPortText(read[k])
    /\ \E k \in DOMAIN read : read[k].type = "Stderr" /\ Contains(read[k].line, "tauri-client-ready")
    /\ splash = "open"
    /\ task = "done"

(***************************************************************************)
(* C10.  The task goes through waiting-for-port, waiting-for-ready and     *)
(* steady in that order: the windows are revealed only for a ready line    *)
(* read after a port line, and once the main window has been shown no      *)
(* further navigation is issued.  The program keeps no phase, so this      *)
(* fails both ways.                                                        *)
(***************************************************************************)
C10_PhasesInOrder ==
    /\ \A j \in Issued("close") \cup Issued("show") :
          \E k \in 1..(log[j].src - 1) : HasPortText(read[k])
    /\ \A i \in Issued("eval") :
          \A j \in 1..(i - 1) : ~(log[j].op = "show" /\ log[j].ok)

(***************************************************************************)
(* C11.  Every stdout line containing tauri-client-ready that the task     *)
(* reads is followed, once the grace delay is over, by the close of the    *)
(* splash window and, the close having succeeded, by the show of the main  *)
(* window: the task does not stay asleep, a ready line it has left behind  *)
(* has had its close and show issued, and every show comes after a         *)
(* successful close issued for the same line.                              *)
(***************************************************************************)
RevealedFor(k) ==
    \E i \in IssuedFor(k) :
        /\ log[i].op = "close"
        /\ log[i].ok => \E j \in IssuedFor(k) : j > i /\ log[j].op = "show"

C11_ReadyLeadsToReveal ==
    /\ [](\A k \in DOMAIN read :
            HasReadyText(read[k]) => (RevealedFor(k) \/ (k = Len(read) /\ task = "sleeping")))
    /\ [](\A j \in Issued("show") :
            \E i \in 1..(j - 1) : log[i].op = "close" /\ log[i].ok /\ log[i].src = log[j].src)
    /\ (task = "sleeping") ~> (task # "sleeping")

\* a ready line has been read and, both calls succeeding, the windows are revealed
C11_Witness ==
    /\ Len(read) >= 1
    /\ HasReadyText(read[Len(read)])
    /\ task = "recv"
    /\ splash = "closed"
    /\ mainVisible
    /\ \E i \in IssuedFor(Len(read)), j \in IssuedFor(Len(read)) :
        i < j /\ log[i].op = "close" /\ log[i].ok /\ log[j].op = "show" /\ log[j].ok

(***************************************************************************)
(* C12.  As claimed: a port announcement that lacks the assignment         *)
(* delimiter makes the task fail with an out-of-range access when the      *)
(* token after the delimiter is taken.  The sentinel the program looks for *)
(* ends with the delimiter, so a line without the delimiter is not taken   *)
(* for a port announcement and this fails.                                 *)
(***************************************************************************)
\* a stdout line that names the port sentinel and holds no delimiter
LacksDelimiter(e) ==
    e.type = "Stdout" /\ Contains(e.line, "tauri-server-port") /\ ~Contains(e.line, "=")

C12_MalformedPortLineFails ==
    \A k \in DOMAIN read : LacksDelimiter(read[k]) => task = "out_of_range"

(***************************************************************************)
(* C12, amended.  The task never fails with an out-of-range access: every  *)
(* line it takes for a port announcement has had its navigation issued,    *)
(* and a line that names the sentinel without the delimiter is handled as  *)
(* any other line, with no window operation.                               *)
(***************************************************************************)
C12_TokenAlwaysInRange ==
    /\ task # "out_of_range"
    /\ \A k \in DOMAIN read :
        /\ HasPortText(read[k]) => \E i \in IssuedFor(k) : log[i].op = "eval"
        /\ LacksDelimiter(read[k]) => IssuedFor(k) = {}

\* a line without the delimiter has been handled, and the port line after it navigated
C12_Witness ==
    /\ Len(read) >= 2
    /\ LacksDelimiter(read[1])
    /\ HasPortText(read[2])
    /\ \E i \in IssuedFor(2) : log[i].op = "eval"
    /\ task = "recv"

(***************************************************************************)
(* C13.  The loop of the task ends only when the child's event stream      *)
(* closes: whenever the task has stopped receiving, the child's end of the *)
(* channel is closed and nothing is left in it.  A close or a show that    *)
(* returns Err is unwrapped and panics the task while the stream is still  *)
(* open, so this fails.                                                    *)
(***************************************************************************)
C13_EndsOnlyOnStreamClose ==
    task \in {"done", "panicked", "out_of_range"} => (child = "exited" /\ rx = <<>>)

(***************************************************************************)
(* C14.  The task handles the events one at a time, in the order they were *)
(* delivered: an event is received only at rx.recv(), never during the     *)
(* grace delay, and it is the oldest of the channel; the operations of the *)
(* log are grouped by event, in the order of the events; and whatever is   *)
(* issued for an event read after a ready line comes after the successful  *)
(* close and show of that ready line.                                      *)
(***************************************************************************)
C14_OneEventAtATime ==
    /\ [](\A i \in DOMAIN log, j \in DOMAIN log : i < j => log[i].src <= log[j].src)
    /\ [](\A i \in DOMAIN log, m \in DOMAIN read :
            (HasReadyText(read[m]) /\ log[i].src > m) =>
                \E c \in IssuedFor(m), w \in IssuedFor(m) :
                    /\ c < w /\ w < i
                    /\ log[c].op = "close" /\ log[c].ok
                    /\ log[w].op = "show" /\ log[w].ok)
    /\ [][read' # read =>
            (task = "recv" /\ read' = Append(read, Head(rx)) /\ rx' = Tail(rx))]_vars
    /\ [][task = "sleeping" => (read' = read /\ mainLocation' = mainLocation)]_vars

\* a port line is waiting in the channel while the grace delay of a ready line runs
C14_Witness ==
    /\ task = "sleeping"
    /\ timer < GraceDelay
    /\ Len(read) >= 1
    /\ HasReadyText(read[Len(read)])
    /\ rx # <<>>
    /\ HasPortText(Head(rx))
    /\ Issued("eval") = {}

(***************************************************************************)
(* C15.  A navigation that returns Err is ignored: the task goes on, to    *)
(* the grace delay or to the next event.  A close or a show that returns   *)
(* Err panics the task: it is the last operation ever issued, so no show   *)
(* follows a failed close, and no later event is received.                 *)
(***************************************************************************)
C15_FailuresAsymmetric ==
    /\ [][(/\ Len(log') = Len(log) + 1
           /\ log'[Len(log')].op = "eval"
           /\ ~log'[Len(log')].ok)
            => (task' \in {"recv", "sleeping"} /\ mainLocation' = mainLocation)]_vars
    /\ [](\A i \in DOMAIN log :
            (log[i].op \in {"close", "show"} /\ ~log[i].ok) =>
                /\ i = Len(log)
                /\ task = "panicked"
                /\ Len(read) = log[i].src)
    /\ [][task = "panicked" => (task' = "panicked" /\ read' = read /\ log' = log)]_vars

\* a failed navigation was passed over, then a failed close stopped the task with an event still queued
C15_Witness ==
    /\ Len(read) = 2
    /\ \E i \in IssuedFor(1) : log[i].op = "eval" /\ ~log[i].ok
    /\ \E i \in IssuedFor(2) : log[i].op = "close" /\ ~log[i].ok
    /\ Issued("show") = {}
    /\ task = "panicked"
    /\ rx # <<>>

(***************************************************************************)
(* C16.  A stdout line that contains both sentinels gets both reactions,   *)
(* in the order navigation, grace delay, close of the splash window, show  *)
(* of the main window: the step that receives it issues the navigation and *)
(* starts the full delay; during the delay the navigation is all that has  *)
(* been issued for the line; a close is issued only when the delay has run *)
(* out; once the task has left the delay the close has been issued; and a  *)
(* show for the line comes after its close.                                *)
(***************************************************************************)
HasBothTexts(e) == HasPortText(e) /\ HasReadyText(e)

C16_BothSentinelsInOrder ==
    /\ [](\A k \in DOMAIN read :
            HasBothTexts(read[k]) =>
                /\ \E i \in IssuedFor(k) :
                      log[i].op = "eval" /\ \A j \in IssuedFor(k) : j # i => i < j
                /\ IF k = Len(read) /\ task = "sleeping"
                   THEN Cardinality(IssuedFor(k)) = 1
                   ELSE \E c \in IssuedFor(k) : log[c].op = "close"
                /\ \A w \in IssuedFor(k) :
                      log[w].op = "show" => \E c \in IssuedFor(k) : c < w /\ log[c].op = "close")
    /\ [][(Receives /\ HasBothTexts(Head(rx))) => (task' = "sleeping" /\ timer' = GraceDelay)]_vars
    /\ [][Issued("close")' # Issued("close") => (task = "sleeping" /\ timer = 0)]_vars

\* one line with both sentinels has navigated, closed the splash window and shown the main window
C16_Witness ==
    /\ Len(read) = 1
    /\ HasBothTexts(read[1])
    /\ Len(log) = 5
    /\ log[3].op = "eval" /\ log[3].ok
    /\ log[4].op = "close" /\ log[4].ok
    /\ log[5].op = "show" /\ log[5].ok
    /\ mainLocation = EvalScript("80 tauri-client-ready")
    /\ splash = "closed"
    /\ mainVisible

====
